---- MODULE Spec2Model ----
(***************************************************************************)
(* Model of python/pyspark/resourceprofile.py: the Python ResourceProfile  *)
(* wrapper, the JVM profile objects it forwards to, the Python request     *)
(* objects passed to require, and the dicts its two accessors return.      *)
(***************************************************************************)
EXTENDS Integers, Sequences, FiniteSets, TLC

VARIABLES
    jvm,        \* JVM heap: sequence of JVM ResourceProfile objects [task, exec]
    profiles,   \* Python heap: sequence of ResourceProfile wrappers [_jResourceProfile, arg]
    pyDicts,    \* Python heap: sequence of the dicts the accessors have returned
    required,   \* history: per JVM profile, the requests named by every require call so far
    last,       \* history: the last operation, its receiver, argument, outcome and result
    nCalls      \* history: number of require calls made so far

vars == <<jvm, profiles, pyDicts, required, last, nCalls>>

\* ---------------------------------------------------------------- bounds
MaxProfiles == 2
MaxCalls == 2
MaxDicts == 1

\* ---------------------------------------------------------------- values
Names == {"cpus", "gpu"}

EmptyMap == [k \in {} |-> {}]

\* dict / java.util.Map update with the entries of another map (key overwrite)
Merge(m, b) == [k \in (DOMAIN m) \cup (DOMAIN b) |-> IF k \in DOMAIN b THEN b[k] ELSE m[k]]

\* JVM request objects, read through their accessor methods resourceName(), amount(), ...
JTaskRequest(n, a) == [jcls |-> "TaskResourceRequest", resourceName |-> n, amount |-> a]
JExecRequest(n, a, s, v) ==
    [jcls |-> "ExecutorResourceRequest", resourceName |-> n, amount |-> a,
     discoveryScript |-> s, vendor |-> v]

\* Python request objects as the accessors construct them
TaskResourceRequest(n, a) ==
    [cls |-> "TaskResourceRequest", attrs |-> [resourceName |-> n, amount |-> a]]
ExecutorResourceRequest(n, a, s, v) ==
    [cls |-> "ExecutorResourceRequest",
     attrs |-> [resourceName |-> n, amount |-> a, discoveryScript |-> s, vendor |-> v]]

\* Python batch containers: each wraps a JVM container holding name -> JVM request
JTaskRequests(m) == [jcls |-> "TaskResourceRequests", requests |-> m]
JExecRequests(m) == [jcls |-> "ExecutorResourceRequests", requests |-> m]
TaskResourceRequests(m) ==
    [cls |-> "TaskResourceRequests",
     attrs |-> ("_javaTaskResourceRequests" :> JTaskRequests(m))]
ExecutorResourceRequests(m) ==
    [cls |-> "ExecutorResourceRequests",
     attrs |-> ("_javaExecutorResourceRequests" :> JExecRequests(m))]

\* ---------------------------------------------------------------- inputs
\* the individual requests callers build
TaskInputs ==
    {JTaskRequest("cpus", 2), JTaskRequest("cpus", 4), JTaskRequest("gpu", 1)}
ExecInputs ==
    {JExecRequest("gpu", 1, "/scripts/findGpu.sh", "nvidia"),
     JExecRequest("gpu", 2, "", ""),
     JExecRequest("cpus", 4, "", "")}

\* the contents a batch container can hold: each request filed under its own name
Batches(reqs) ==
    {m \in UNION {[S -> reqs] : S \in SUBSET Names} :
        \A k \in DOMAIN m : m[k].resourceName = k}

\* values that are no request at all: a str, and objects of a foreign class that carry
\* an attribute named like the one a batch container has
PyStr == [cls |-> "str", attrs |-> EmptyMap]
Foreign(a, j) == [cls |-> "object", attrs |-> (a :> j)]
ForeignInputs ==
    {Foreign("_javaExecutorResourceRequests",
             JExecRequests("gpu" :> JExecRequest("gpu", 2, "", ""))),
     Foreign("_javaExecutorResourceRequests", [jcls |-> "Object"]),
     Foreign("_javaTaskResourceRequests",
             JTaskRequests("cpus" :> JTaskRequest("cpus", 2)))}

SingleTaskArgs == {TaskResourceRequest(r.resourceName, r.amount) : r \in TaskInputs}
SingleExecArgs ==
    {ExecutorResourceRequest(r.resourceName, r.amount, r.discoveryScript, r.vendor) :
        r \in ExecInputs}
BatchTaskArgs == {TaskResourceRequests(m) : m \in Batches(TaskInputs)}
BatchExecArgs == {ExecutorResourceRequests(m) : m \in Batches(ExecInputs)}
RequestArgs == SingleTaskArgs \cup SingleExecArgs \cup BatchTaskArgs \cup BatchExecArgs
Args == RequestArgs \cup {PyStr} \cup ForeignInputs

\* ---------------------------------------------------------------- Python semantics
IsInstance(o, c) == o.cls = c
HasAttr(o, a) == a \in DOMAIN o.attrs

\* ---------------------------------------------------------------- JVM side
\* org.apache.spark.resource.ResourceProfile(): a profile with two empty maps
JNewProfile == [task |-> EmptyMap, exec |-> EmptyMap]

\* JVM ResourceProfile.require, resolved by the bridge on the Java class of the argument
JRequire(p, j) ==
    IF j.jcls = "TaskResourceRequests"
    THEN [status |-> "ok", profile |-> [p EXCEPT !.task = Merge(@, j.requests)]]
    ELSE IF j.jcls = "ExecutorResourceRequests"
    THEN [status |-> "ok", profile |-> [p EXCEPT !.exec = Merge(@, j.requests)]]
    ELSE [status |-> "Py4JError", profile |-> p]

taskResourcesJMap(p) == p.task
executorResourcesJMap(p) == p.exec

\* ---------------------------------------------------------------- ResourceProfile
\* references: a set holding one index into a heap, or {} for None
None == {}
Ref(i) == {i}
Deref(r) == CHOOSE i \in r : TRUE

\* variant: the default JVM profile is created once and shared by every wrapper
InitHandleShared(given, fresh) ==
    IF given = None THEN (IF Deref(fresh) > 1 THEN Ref(1) ELSE fresh) ELSE given

\* variant: the argument is ignored and a new JVM profile is always created
InitHandleFresh(given, fresh) == fresh

\* __init__: the JVM profile the new wrapper holds. `given` is the _jResourceProfile
\* argument (None or a reference to a JVM profile), `fresh` a newly allocated one.
InitHandle(given, fresh) == IF given = None THEN fresh ELSE given

Handle(w) == Deref(profiles[w]._jResourceProfile)

\* variant: a missing attribute is read as an empty batch of executor requests
requireLenient(w, rr) ==
    IF IsInstance(rr, "TaskResourceRequests")
    THEN JRequire(jvm[Handle(w)], rr.attrs["_javaTaskResourceRequests"])
    ELSE IF HasAttr(rr, "_javaExecutorResourceRequests")
         THEN JRequire(jvm[Handle(w)], rr.attrs["_javaExecutorResourceRequests"])
         ELSE JRequire(jvm[Handle(w)], JExecRequests(EmptyMap))

\* variant: each call forwards to a newly created JVM profile, which replaces the held one
requireOnNew(w, rr) ==
    IF IsInstance(rr, "TaskResourceRequests")
    THEN IF HasAttr(rr, "_javaTaskResourceRequests")
         THEN JRequire(JNewProfile, rr.attrs["_javaTaskResourceRequests"])
         ELSE [status |-> "AttributeError", profile |-> jvm[Handle(w)]]
    ELSE IF HasAttr(rr, "_javaExecutorResourceRequests")
         THEN JRequire(JNewProfile, rr.attrs["_javaExecutorResourceRequests"])
         ELSE [status |-> "AttributeError", profile |-> jvm[Handle(w)]]

\* require: the outcome of the call on wrapper `w` with argument `rr`, as
\* [status, profile]: the status "ok" or the error raised, and the JVM profile after.
\* Reading an attribute the argument lacks raises before the JVM call is made.
require(w, rr) ==
    IF IsInstance(rr, "TaskResourceRequests")
    THEN IF HasAttr(rr, "_javaTaskResourceRequests")
         THEN JRequire(jvm[Handle(w)], rr.attrs["_javaTaskResourceRequests"])
         ELSE [status |-> "AttributeError", profile |-> jvm[Handle(w)]]
    ELSE IF HasAttr(rr, "_javaExecutorResourceRequests")
         THEN JRequire(jvm[Handle(w)], rr.attrs["_javaExecutorResourceRequests"])
         ELSE [status |-> "AttributeError", profile |-> jvm[Handle(w)]]

\* variant: the method ends without `return self`
requireReturnNone(w) == None

\* require: the value returned by a call that completes
requireReturn(w) == Ref(w)

\* variant: the accessors fill one dict kept between calls
NewDictReused(heap) == IF Len(heap) = 0 THEN 1 ELSE Len(heap)

\* the dict object an accessor fills: `result = {}` allocates a new one
NewDict(heap) == Len(heap) + 1

\* variant: executorResources reads the task map
executorResourcesOfTasks(w) ==
    LET execRes == taskResourcesJMap(jvm[Handle(w)])
    IN  [k \in DOMAIN execRes |->
            ExecutorResourceRequest(execRes[k].resourceName, execRes[k].amount, "", "")]

\* variant: executorResources passes vendor and discoveryScript in the wrong order
executorResourcesSwapped(w) ==
    LET execRes == executorResourcesJMap(jvm[Handle(w)])
    IN  [k \in DOMAIN execRes |->
            ExecutorResourceRequest(execRes[k].resourceName, execRes[k].amount,
                                    execRes[k].vendor, execRes[k].discoveryScript)]

\* the accessors: a dict rebuilt entry by entry from the JVM map
taskResources(w) ==
    LET taskRes == taskResourcesJMap(jvm[Handle(w)])
    IN  [k \in DOMAIN taskRes |->
            TaskResourceRequest(taskRes[k].resourceName, taskRes[k].amount)]

executorResources(w) ==
    LET execRes == executorResourcesJMap(jvm[Handle(w)])
    IN  [k \in DOMAIN execRes |->
            ExecutorResourceRequest(execRes[k].resourceName, execRes[k].amount,
                                    execRes[k].discoveryScript, execRes[k].vendor)]

\* ---------------------------------------------------------------- history
\* the name -> request entries a request argument names, as Python requests
Named(rr) ==
    IF rr \in SingleTaskArgs \cup SingleExecArgs THEN (rr.attrs.resourceName :> rr)
    ELSE IF rr \in BatchTaskArgs
    THEN LET m == rr.attrs["_javaTaskResourceRequests"].requests
         IN  [k \in DOMAIN m |-> TaskResourceRequest(m[k].resourceName, m[k].amount)]
    ELSE IF rr \in BatchExecArgs
    THEN LET m == rr.attrs["_javaExecutorResourceRequests"].requests
         IN  [k \in DOMAIN m |->
                ExecutorResourceRequest(m[k].resourceName, m[k].amount,
                                        m[k].discoveryScript, m[k].vendor)]
    ELSE EmptyMap

IsTaskArg(rr) == rr \in SingleTaskArgs \cup BatchTaskArgs
IsExecArg(rr) == rr \in SingleExecArgs \cup BatchExecArgs

\* the history of a JVM profile: the task and executor requests named by the require
\* calls made on it, and whether any call passed something that is no request
NoneRequired == [task |-> EmptyMap, exec |-> EmptyMap, other |-> FALSE]

Record(h, rr) ==
    [required EXCEPT ![h] =
        [task |-> IF IsTaskArg(rr) THEN Merge(@.task, Named(rr)) ELSE @.task,
         exec |-> IF IsExecArg(rr) THEN Merge(@.exec, Named(rr)) ELSE @.exec,
         other |-> @.other \/ rr \notin RequestArgs]]

NoCall ==
    [op |-> "none", self |-> None, arg |-> PyStr, jarg |-> None, status |-> "ok",
     ret |-> None, prev |-> None, dict |-> None]

\* ---------------------------------------------------------------- actions
\* ResourceProfile(given): given is None, or a reference to a JVM profile that exists
\* already. The JVM profile is allocated only when __init__ takes the first branch.
Construct(given) ==
    /\ Len(profiles) < MaxProfiles
    /\ LET h == InitHandle(given, Ref(Len(jvm) + 1))
           w == Len(profiles) + 1
           new == Deref(h) > Len(jvm)
       IN  /\ jvm' = IF new THEN Append(jvm, JNewProfile) ELSE jvm
           /\ required' = IF new THEN Append(required, NoneRequired)
                          ELSE required
           /\ profiles' = Append(profiles, [_jResourceProfile |-> h, arg |-> given])
           /\ last' = [NoCall EXCEPT !.op = "init", !.self = Ref(w), !.ret = Ref(w),
                                     !.jarg = given]
    /\ UNCHANGED <<pyDicts, nCalls>>

Call(w, rr, prev) ==
    LET out == require(w, rr)
    IN  /\ nCalls < MaxCalls
        /\ nCalls' = nCalls + 1
        /\ jvm' = [jvm EXCEPT ![Handle(w)] = out.profile]
        /\ required' = Record(Handle(w), rr)
        /\ last' = [NoCall EXCEPT !.op = "require", !.self = Ref(w), !.arg = rr,
                                  !.status = out.status, !.prev = prev,
                                  !.ret = IF out.status = "ok" THEN requireReturn(w)
                                          ELSE None]
        /\ UNCHANGED <<profiles, pyDicts>>

\* p.require(rr)
Require(w, rr) == Call(w, rr, None)

\* p.require(a).require(rr): the receiver is the value the previous call returned
ChainRequire(rr) ==
    /\ last.op = "require"
    /\ last.status = "ok"
    /\ last.ret # None
    /\ Call(Deref(last.ret), rr, last.self)

\* the dict heap after an accessor stored its result under reference d
Store(heap, d, m) == IF d > Len(heap) THEN Append(heap, m) ELSE [heap EXCEPT ![d] = m]

\* p.taskResources
ReadTask(w) ==
    /\ LET d == NewDict(pyDicts)
       IN  /\ d <= MaxDicts
           /\ pyDicts' = Store(pyDicts, d, taskResources(w))
           /\ last' = [NoCall EXCEPT !.op = "taskResources", !.self = Ref(w),
                                     !.dict = Ref(d)]
    /\ UNCHANGED <<jvm, profiles, required, nCalls>>

\* p.executorResources
ReadExec(w) ==
    /\ LET d == NewDict(pyDicts)
       IN  /\ d <= MaxDicts
           /\ pyDicts' = Store(pyDicts, d, executorResources(w))
           /\ last' = [NoCall EXCEPT !.op = "executorResources", !.self = Ref(w),
                                     !.dict = Ref(d)]
    /\ UNCHANGED <<jvm, profiles, required, nCalls>>

\* the caller alters a dict it was given: d[k] = v (adds or replaces a key)
SetItem(d, k, v) ==
    /\ pyDicts' = [pyDicts EXCEPT ![d] = Merge(@, k :> v)]
    /\ last' = [NoCall EXCEPT !.op = "setitem"]
    /\ UNCHANGED <<jvm, profiles, required, nCalls>>

\* the caller alters a dict it was given: del d[k]
DelItem(d, k) ==
    /\ k \in DOMAIN pyDicts[d]
    /\ pyDicts' = [pyDicts EXCEPT ![d] = [x \in (DOMAIN @) \ {k} |-> @[x]]]
    /\ last' = [NoCall EXCEPT !.op = "delitem"]
    /\ UNCHANGED <<jvm, profiles, required, nCalls>>

\* ---------------------------------------------------------------- specification
Init ==
    /\ jvm = <<>>
    /\ profiles = <<>>
    /\ pyDicts = <<>>
    /\ required = <<>>
    /\ last = NoCall
    /\ nCalls = 0

Next ==
    \/ \E given \in {None} \cup {Ref(j) : j \in DOMAIN jvm} : Construct(given)
    \/ \E w \in DOMAIN profiles, rr \in Args : Require(w, rr)
    \/ \E rr \in Args : ChainRequire(rr)

Spec == Init /\ [][Next]_vars

\* A caller that holds one profile, constructed empty, and reads it between requires
InitRead ==
    /\ jvm = <<JNewProfile>>
    /\ profiles = <<[_jResourceProfile |-> Ref(1), arg |-> None]>>
    /\ pyDicts = <<>>
    /\ required = <<NoneRequired>>
    /\ last = [NoCall EXCEPT !.op = "init", !.self = Ref(1), !.ret = Ref(1)]
    /\ nCalls = 0

NextRead ==
    \/ \E w \in DOMAIN profiles, rr \in Args : Require(w, rr)
    \/ \E w \in DOMAIN profiles : ReadTask(w)
    \/ \E w \in DOMAIN profiles : ReadExec(w)
    \/ \E d \in DOMAIN pyDicts, k \in Names : SetItem(d, k, TaskResourceRequest(k, 8))
    \/ \E d \in DOMAIN pyDicts, k \in Names : DelItem(d, k)

SpecRead == InitRead /\ [][NextRead]_vars

\* ---------------------------------------------------------------- properties
Profiles == DOMAIN profiles
Completed == last.op = "require" /\ last.status = "ok"
Self == Deref(last.self)

\* the JVM profile a wrapper was constructed over: the one given, or else its own
Given(w) == IF profiles[w].arg # None THEN profiles[w].arg ELSE profiles[w]._jResourceProfile

\* the entries of m are present in view v, each with every field as given
Carries(v, m) == \A k \in DOMAIN m : k \in DOMAIN v /\ v[k].attrs = m[k].attrs

\* C1: after any sequence of require calls with request arguments on a profile
\* constructed empty, taskResources holds exactly the names of the task requests of the
\* calls, each with the request of the last call naming it, and executorResources
\* likewise for the executor requests.
C1_LastWriteWins ==
    \A w \in Profiles :
        ~required[Handle(w)].other =>
            /\ taskResources(w) = required[Handle(w)].task
            /\ executorResources(w) = required[Handle(w)].exec

\* C2: require completes without error for each of the four request shapes and merges
\* the entries the argument names into the corresponding mapping.
C2_AcceptsFourShapes ==
    (last.op = "require" /\ last.arg \in RequestArgs) =>
        /\ last.status = "ok"
        /\ IsTaskArg(last.arg) => Carries(taskResources(Self), Named(last.arg))
        /\ IsExecArg(last.arg) => Carries(executorResources(Self), Named(last.arg))

\* C3: a profile constructed with no handle argument has an empty taskResources and an
\* empty executorResources when it is constructed, and for as long as no require call
\* has named a request for it or passed it something that is no request.
C3_FreshIsEmpty ==
    /\ (last.op = "init" /\ last.jarg = None) =>
            /\ taskResources(Deref(last.ret)) = EmptyMap
            /\ executorResources(Deref(last.ret)) = EmptyMap
    /\ \A w \in Profiles :
            (profiles[w].arg = None /\ required[Handle(w)] = NoneRequired) =>
                /\ taskResources(w) = EmptyMap
                /\ executorResources(w) = EmptyMap

C3_Witness ==
    /\ last.op = "init" /\ last.jarg = None
    /\ Len(profiles) = 2
    /\ taskResources(1) # EmptyMap
    /\ executorResources(1) # EmptyMap
    /\ taskResources(2) = EmptyMap

\* C4: a require call that completes returns the profile it was invoked on, so a call
\* chained on the result of another has the same receiver as that one.
C4_ReturnsSelf ==
    Completed =>
        /\ last.ret = last.self
        /\ last.prev # None => last.self = last.prev

C4_Witness ==
    /\ Completed
    /\ last.prev = last.self
    /\ last.ret = last.self
    /\ last.arg \in BatchTaskArgs
    /\ Named(last.arg) # EmptyMap
    /\ Carries(taskResources(Self), Named(last.arg))
    /\ executorResources(Self) # EmptyMap

\* C5 as stated: a require whose argument is none of the four request types raises
\* before anything is forwarded, and leaves both mappings as they were.
C5_UnrecognizedFails ==
    [][(last'.op = "require" /\ nCalls' = nCalls + 1 /\ last'.arg \notin RequestArgs) =>
          /\ last'.status = "AttributeError"
          /\ jvm' = jvm]_vars

\* C5 amended: a require whose argument is none of the four request types and has no
\* attribute _javaExecutorResourceRequests raises AttributeError before anything is
\* forwarded, and leaves both mappings of every profile as they were.
C5_NoAttributeFails ==
    [][(/\ last'.op = "require" /\ nCalls' = nCalls + 1
        /\ last'.arg \notin RequestArgs
        /\ ~HasAttr(last'.arg, "_javaExecutorResourceRequests")) =>
          /\ last'.status = "AttributeError"
          /\ last'.ret = None
          /\ \A w \in Profiles :
                /\ taskResources(w)' = taskResources(w)
                /\ executorResources(w)' = executorResources(w)]_vars

C5_Witness ==
    /\ last.op = "require"
    /\ last.arg \in {PyStr} \cup ForeignInputs
    /\ ~HasAttr(last.arg, "_javaExecutorResourceRequests")
    /\ last.status = "AttributeError"
    /\ taskResources(Self) # EmptyMap
    /\ nCalls = 2

C7_OtherMappingUntouched ==
    [][(last'.op = "require" /\ nCalls' = nCalls + 1) =>
          \A w \in Profiles :
            /\ IsTaskArg(last'.arg) => executorResources(w)' = executorResources(w)
            /\ IsExecArg(last'.arg) => taskResources(w)' = taskResources(w)]_vars

C7_Witness ==
    /\ Completed
    /\ last.arg \in BatchTaskArgs
    /\ DOMAIN Named(last.arg) = Names
    /\ Carries(taskResources(Self), Named(last.arg))
    /\ DOMAIN executorResources(Self) = {"gpu"}

\* C9: no step removes a name from the taskResources or the executorResources of a
\* profile.
C9_NamesOnlyGrow ==
    [][\A w \in Profiles :
          /\ DOMAIN taskResources(w) \subseteq DOMAIN taskResources(w)'
          /\ DOMAIN executorResources(w) \subseteq DOMAIN executorResources(w)']_vars

C9_Witness ==
    /\ Completed
    /\ nCalls = 2
    /\ last.arg = TaskResourceRequests("cpus" :> JTaskRequest("cpus", 4))
    /\ DOMAIN taskResources(Self) = Names
    /\ taskResources(Self)["cpus"] = TaskResourceRequest("cpus", 4)

\* C10: a profile constructed from an existing handle holds that very handle; it and
\* every other wrapper holding the handle return equal taskResources and equal
\* executorResources, and the entries of a require made through one of them are
\* returned by all of them.
C10_SharedHandle ==
    /\ \A w, v \in Profiles :
            (profiles[w].arg # None /\ Given(v) = Given(w)) =>
                /\ taskResources(w) = taskResources(v)
                /\ executorResources(w) = executorResources(v)
    /\ Completed =>
            \A v \in Profiles :
                (/\ profiles[v].arg # None \/ profiles[Self].arg # None
                 /\ Given(v) = Given(Self)) =>
                    /\ IsTaskArg(last.arg) => Carries(taskResources(v), Named(last.arg))
                    /\ IsExecArg(last.arg) => Carries(executorResources(v), Named(last.arg))

C10_Witness ==
    /\ Completed
    /\ nCalls = 2
    /\ Self = 2
    /\ profiles[2].arg = Ref(1)
    /\ IsExecArg(last.arg)
    /\ Named(last.arg) # EmptyMap
    /\ Carries(executorResources(1), Named(last.arg))
    /\ taskResources(1) # EmptyMap
    /\ taskResources(2) = taskResources(1)

IsRead(op) == op \in {"taskResources", "executorResources"}

====
